---- MODULE Spec2Model ----
(***************************************************************************)
(* The replica blob store of pkg/blobserver/replica/replica.go: one store  *)
(* that fans every operation out to N backend stores.  The backends are    *)
(* opaque: what a backend reads, reports and returns is a nondeterministic *)
(* choice.  Every goroutine of the source is a process of the model; a     *)
(* channel is a sequence with the capacity the source gives it.            *)
(***************************************************************************)
EXTENDS Integers, Sequences, FiniteSets, TLC

\* ---------------------------------------------------------------- bounds
\* Largest number of configured backends.
MaxReplicas == 3
\* Largest number of bytes (one chunk = one byte) a source stream delivers;
\* backends report sizes in 0..MaxSrcLen.
MaxSrcLen == 1
\* Largest number of blob references in one request list.
MaxBlobs == 2
\* Number of distinct blob references.
MaxRefs == 2
\* Largest number of stat results the backends push in one StatBlobs call.
MaxStatReports == 2
\* Largest number of backends of a store StatBlobs is called on.
MaxStatReplicas == 2

\* const buffered = 8: the capacity of the stat and error channels.
buffered == 8

\* ---------------------------------------------------------------- values
\* error values: nil, the error of backend i, the error of io.Copy, and the
\* error built by fmt.Errorf for a size mismatch.
Nil == <<"nil">>
BackendErr(i) == <<"backend", i>>
CopyErr == <<"copy">>
SizeErr(got, want) == <<"size", got, want>>

\* blobref.SizedBlobRef: the zero value, and the value a backend reports.
ZeroSB == [ref |-> "nil", size |-> 0]
SB(r, s) == [ref |-> r, size |-> s]

Refs == 1..MaxRefs
Sizes == 0..MaxSrcLen

\* ---------------------------------------------------------- construction
\* The backend locators a configuration can name, and the lists of them.
Prefixes == 1..MaxReplicas
BackendLists == UNION { [1..n -> Prefixes] : n \in 0..MaxReplicas }

\* The requests a request-scoped variant can carry.
Requests == {"req1", "req2"}

\* A configuration: the "backends" list, minWritesForSuccess (set or not,
\* and its value), whether it has a key the constructor does not know, and
\* the locators the loader cannot resolve.
Configs ==
    { c \in [ backends : BackendLists,
              minSet : BOOLEAN,
              minVal : (-1)..(MaxReplicas + 1),
              unknownKey : BOOLEAN,
              unresolved : SUBSET Prefixes ] : c.minSet \/ c.minVal = 0 }

\* config.OptionalInt("minWritesForSuccess", nReplicas)
OptionalInt(c, def) == IF c.minSet THEN c.minVal ELSE def

\* ld.GetStorage(prefix): the backend a locator resolves to.
GetStorage(prefix) == [storage |-> prefix]

\* No replicaStorage (the nil storage of an error return).
NoStore == [replicaPrefixes |-> <<>>, replicas |-> <<>>,
            minWritesForSuccess |-> 0, ctx |-> "nil"]

\* A slip of lines 107-113: a locator that does not resolve is skipped.
newFromConfigSkipsUnresolved(c) ==
    LET resolved == SelectSeq(c.backends, LAMBDA pr : pr \notin c.unresolved)
        nReplicas == Len(c.backends)
        minWrites == OptionalInt(c, nReplicas)
    IN  IF c.unknownKey THEN [err |-> "validate", sto |-> NoStore]
        ELSE IF nReplicas = 0
          THEN [err |-> "need at least one replica", sto |-> NoStore]
        ELSE [err |-> "nil",
              sto |-> [replicaPrefixes |-> c.backends,
                       replicas |-> [i \in 1..Len(resolved) |->
                                        GetStorage(resolved[i])],
                       minWritesForSuccess |->
                           IF minWrites = 0 THEN nReplicas ELSE minWrites,
                       ctx |-> "nil"]]

\* A slip of lines 103-105: a minWritesForSuccess of 0 is kept.
newFromConfigKeepsZero(c) ==
    LET nReplicas == Len(c.backends)
    IN  IF c.unknownKey THEN [err |-> "validate", sto |-> NoStore]
        ELSE IF nReplicas = 0
          THEN [err |-> "need at least one replica", sto |-> NoStore]
        ELSE IF \E i \in 1..nReplicas : c.backends[i] \in c.unresolved
          THEN [err |-> "resolve", sto |-> NoStore]
        ELSE [err |-> "nil",
              sto |-> [replicaPrefixes |-> c.backends,
                       replicas |-> [i \in 1..nReplicas |->
                                        GetStorage(c.backends[i])],
                       minWritesForSuccess |-> OptionalInt(c, nReplicas),
                       ctx |-> "nil"]]

\* newFromConfig: the constructed store, or an error and no store.
newFromConfig(c) ==
    LET nReplicas == Len(c.backends)
        minWrites == OptionalInt(c, nReplicas)
    IN  IF c.unknownKey THEN [err |-> "validate", sto |-> NoStore]
        ELSE IF nReplicas = 0
          THEN [err |-> "need at least one replica", sto |-> NoStore]
        ELSE IF \E i \in 1..nReplicas : c.backends[i] \in c.unresolved
          THEN [err |-> "resolve", sto |-> NoStore]
        ELSE [err |-> "nil",
              sto |-> [replicaPrefixes |-> c.backends,
                       replicas |-> [i \in 1..nReplicas |->
                                        GetStorage(c.backends[i])],
                       minWritesForSuccess |->
                           IF minWrites = 0 THEN nReplicas ELSE minWrites,
                       ctx |-> "nil"]]

\* The configurations whose backends list is "/b1/", ..., "/bn/": the
\* operations address the backends by position only.
CanonicalConfigs ==
    { c \in Configs : c.backends = [i \in 1..Len(c.backends) |-> i] }

\* The stores construction can return.
Stores == { newFromConfig(c).sto :
            c \in { c \in CanonicalConfigs : newFromConfig(c).err = "nil" } }

\* The stores built from a configuration that leaves minWritesForSuccess unset.
DefaultStores == { s \in Stores : s.minWritesForSuccess = Len(s.replicas) }

\* A configuration that builds the store s.
ConfigOf(s) ==
    [backends |-> s.replicaPrefixes, minSet |-> TRUE,
     minVal |-> s.minWritesForSuccess, unknownKey |-> FALSE, unresolved |-> {}]

VARIABLES
    cfg,        \* the configuration given to newFromConfig
    ctorErr,    \* the error newFromConfig returned; "pending" before it ran
    sto,        \* the replicaStorage newFromConfig returned
    wrapped,    \* the request-scoped variant WrapContext returned last
    \* ReceiveBlob
    rcvPc,      \* "idle", "copy", "collect", "returned"
    size,       \* bytes io.Copy has written so far / returned
    mwIdx,      \* 0: io.Copy is about to read the source; i: the MultiWriter
                \* is blocked writing the current chunk to pipe i
    wclosed,    \* the write ends of the pipes are closed
    worker,     \* per backend, once called: "recv", "hung", "drain", "send", "done"
    wres,       \* per backend: the sizedBlobAndError of its receive operation
    upResult,   \* the channel upResult, capacity nReplicas
    nSuccess, nFailures,
    err,        \* the named result err
    nRecv,      \* iterations of the collection loop done
    rcvRet,     \* what ReceiveBlob returned: [sb, err]
    notified,   \* number of NotifyBlobReceived calls
    \* RemoveBlobs
    rmPc,       \* "idle", "range" (at the receive of the range clause),
                \* "inner" (at the receive of line 250), "returned"
    rmWorker,   \* per backend, once called: "run", "send", "done"
    rmErr,      \* per backend: what its remove operation returned
    rmSent,     \* everything sent on errch, in order
    rmNRecv,    \* number of values received from errch
    reterr,
    rmNSuccess, \* nSuccess of RemoveBlobs
    rmRet,      \* what RemoveBlobs returned
    \* FetchStreaming
    ftPc,       \* "idle", "loop", "returned"
    ftBlob,     \* the reference asked for
    ftIdx,      \* the position of the loop over sto.replicas
    ftCalls,    \* the backends called by this call and what each returned, in order
    ftRet,      \* the results file, size, err
    \* StatBlobs
    stPc,       \* "idle", "collect", "waitdone", "returned"
    blobs,      \* the requested list
    need,       \* the keys of the map need
    stPushed,   \* everything the backends sent on ch, in order
    stNFunnel,  \* number of values the funnel goroutine received from ch
    chClosed,
    funnelPc,   \* "idle", "range", "signal", "done"
    stWorker,   \* per backend, once called: "run", "done"
    stSent,     \* everything sent on errch, in order
    stNRecv,    \* number of values received from errch
    retErr,
    dest,       \* everything sent to dest, in order
    stRet       \* what StatBlobs returned

N == Len(sto.replicas)
Replicas == 1..N

rcvVars == <<rcvPc, size, mwIdx, wclosed, worker, wres, upResult,
             nSuccess, nFailures, err, nRecv, rcvRet, notified>>
rmVars == <<rmPc, rmWorker, rmErr, rmSent, rmNRecv, reterr, rmNSuccess, rmRet>>
ftVars == <<ftPc, ftBlob, ftIdx, ftCalls, ftRet>>
stVars == <<stPc, blobs, need, stPushed, stNFunnel, chClosed, funnelPc,
            stWorker, stSent, stNRecv, retErr, dest, stRet>>
ctorVars == <<cfg, ctorErr, sto, wrapped>>
vars == <<ctorVars, rcvVars, rmVars, ftVars, stVars>>

NoRes == [sb |-> ZeroSB, err |-> Nil]

InitReceiveVars ==
    /\ rcvPc = "idle"
    /\ size = 0
    /\ mwIdx = 0
    /\ wclosed = FALSE
    /\ worker = <<>>
    /\ wres = <<>>
    /\ upResult = <<>>
    /\ nSuccess = 0
    /\ nFailures = 0
    /\ err = Nil
    /\ nRecv = 0
    /\ rcvRet = NoRes
    /\ notified = 0

NoFetch == [file |-> 0, size |-> 0, err |-> Nil]

InitRemoveVars ==
    /\ rmPc = "idle"
    /\ rmWorker = <<>>
    /\ rmErr = <<>>
    /\ rmSent = <<>>
    /\ rmNRecv = 0
    /\ reterr = Nil
    /\ rmNSuccess = 0
    /\ rmRet = Nil

InitFetchVars ==
    /\ ftPc = "idle"
    /\ ftBlob = 1
    /\ ftIdx = 0
    /\ ftCalls = <<>>
    /\ ftRet = NoFetch

InitStatVars ==
    /\ stPc = "idle"
    /\ blobs = <<>>
    /\ need = {}
    /\ stPushed = <<>>
    /\ stNFunnel = 0
    /\ chClosed = FALSE
    /\ funnelPc = "idle"
    /\ stWorker = <<>>
    /\ stSent = <<>>
    /\ stNRecv = 0
    /\ retErr = Nil
    /\ dest = <<>>
    /\ stRet = Nil

\* No operation has been called on the store.
Idle == InitReceiveVars /\ InitRemoveVars /\ InitFetchVars /\ InitStatVars

\* The store s, as newFromConfig returned it.
Built(s) ==
    /\ sto = s
    /\ cfg = ConfigOf(s)
    /\ ctorErr = newFromConfig(ConfigOf(s)).err
    /\ wrapped = NoStore

\* ----------------------------------------------------------- construction
\* Lines 90-115: newFromConfig runs on the configuration.
Construct ==
    /\ ctorErr = "pending"
    /\ ctorErr' = newFromConfig(cfg).err
    /\ sto' = newFromConfig(cfg).sto
    /\ UNCHANGED <<cfg, wrapped, rcvVars, rmVars, ftVars, stVars>>

\* Lines 72-77: WrapContext copies the store and sets the copy's ctx.
WrapContext(req) ==
    /\ ctorErr = "nil"
    /\ wrapped' = [sto EXCEPT !.ctx = req]
    /\ UNCHANGED <<cfg, ctorErr, sto, rcvVars, rmVars, ftVars, stVars>>

\* newFromConfig has not run yet on the configuration c.
Unbuilt(c) ==
    /\ cfg = c
    /\ ctorErr = "pending"
    /\ sto = NoStore
    /\ wrapped = NoStore

InitConstruct ==
    /\ \E c \in Configs : Unbuilt(c)
    /\ Idle

NextConstruct ==
    \/ Construct
    \/ \E req \in Requests : WrapContext(req)

SpecConstruct == InitConstruct /\ [][NextConstruct]_vars

\* ------------------------------------------------------------ ReceiveBlob
\* Lines 184-205: the pipes and the result channel are made and one worker
\* per backend is started; the caller then enters io.Copy.
ReceiveBlobCall ==
    /\ ctorErr = "nil"
    /\ rcvPc = "idle"
    /\ rcvPc' = "copy"
    /\ worker' = [i \in Replicas |-> "recv"]
    /\ wres' = [i \in Replicas |-> NoRes]
    /\ UNCHANGED <<ctorVars, rmVars, ftVars, stVars, size, mwIdx, wclosed, upResult, nSuccess,
                   nFailures, err, nRecv, rcvRet, notified>>

\* io.Copy reads one chunk from the source and the MultiWriter starts to
\* write it to the first pipe; a pipe write blocks until its reader took it.
CopyRead ==
    /\ rcvPc = "copy" /\ mwIdx = 0
    /\ size < MaxSrcLen
    /\ mwIdx' = 1
    /\ UNCHANGED <<ctorVars, rmVars, ftVars, stVars, rcvPc, size, wclosed, worker, wres, upResult, nSuccess,
                   nFailures, err, nRecv, rcvRet, notified>>

\* The reader of pipe i takes the chunk: the write to pipe i returns and the
\* MultiWriter goes on to pipe i+1, or io.Copy counts the chunk as written.
PipeAdvance(i) ==
    /\ rcvPc = "copy" /\ mwIdx = i
    /\ mwIdx' = IF i = N THEN 0 ELSE i + 1
    /\ size' = IF i = N THEN size + 1 ELSE size

\* The backend's receive operation reads from its pipe.
BackendRead(i) ==
    /\ worker[i] = "recv"
    /\ PipeAdvance(i)
    /\ UNCHANGED <<ctorVars, rmVars, ftVars, stVars, rcvPc, wclosed, worker, wres, upResult, nSuccess,
                   nFailures, err, nRecv, rcvRet, notified>>

\* A slip of lines 198-200: after an error the worker does not drain its
\* pipe and sends its result at once.
BackendReturnNoDrain(i) ==
    /\ worker[i] = "recv"
    /\ \/ /\ worker' = [worker EXCEPT ![i] = "send"]
          /\ wres' = [wres EXCEPT ![i] = [sb |-> ZeroSB, err |-> BackendErr(i)]]
       \/ \E s \in Sizes :
          /\ worker' = [worker EXCEPT ![i] = "send"]
          /\ wres' = [wres EXCEPT ![i] = [sb |-> SB("b", s), err |-> Nil]]
    /\ UNCHANGED <<ctorVars, rmVars, ftVars, stVars, rcvPc, size, mwIdx, wclosed, upResult, nSuccess,
                   nFailures, err, nRecv, rcvRet, notified>>

\* Line 197: the backend's receive operation returns, with an error or with
\* a SizedBlobRef of any size.  After an error the worker drains its pipe.
BackendReturn(i) ==
    /\ worker[i] = "recv"
    /\ \/ /\ worker' = [worker EXCEPT ![i] = "drain"]
          /\ wres' = [wres EXCEPT ![i] = [sb |-> ZeroSB, err |-> BackendErr(i)]]
       \/ \E s \in Sizes :
          /\ worker' = [worker EXCEPT ![i] = "send"]
          /\ wres' = [wres EXCEPT ![i] = [sb |-> SB("b", s), err |-> Nil]]
    /\ UNCHANGED <<ctorVars, rmVars, ftVars, stVars, rcvPc, size, mwIdx, wclosed, upResult, nSuccess,
                   nFailures, err, nRecv, rcvRet, notified>>

\* The backend's receive operation never returns.
BackendHang(i) ==
    /\ worker[i] = "recv"
    /\ worker' = [worker EXCEPT ![i] = "hung"]
    /\ UNCHANGED <<ctorVars, rmVars, ftVars, stVars, rcvPc, size, mwIdx, wclosed, wres, upResult, nSuccess,
                   nFailures, err, nRecv, rcvRet, notified>>

\* Line 199: io.Copy(ioutil.Discard, source) takes a chunk from the pipe.
DrainRead(i) ==
    /\ worker[i] = "drain"
    /\ PipeAdvance(i)
    /\ UNCHANGED <<ctorVars, rmVars, ftVars, stVars, rcvPc, wclosed, worker, wres, upResult, nSuccess,
                   nFailures, err, nRecv, rcvRet, notified>>

\* Line 199: the drain ends when the pipe's write end is closed.
DrainEOF(i) ==
    /\ worker[i] = "drain"
    /\ wclosed
    /\ worker' = [worker EXCEPT ![i] = "send"]
    /\ UNCHANGED <<ctorVars, rmVars, ftVars, stVars, rcvPc, size, mwIdx, wclosed, wres, upResult, nSuccess,
                   nFailures, err, nRecv, rcvRet, notified>>

\* A slip of line 194: the channel is sized by the quorum.
UpResultCapQuorum == sto.minWritesForSuccess

\* Line 194: make(chan sizedBlobAndError, nReplicas).
UpResultCap == N

\* Line 201: upResult <- sizedBlobAndError{sb, err}; blocks while the
\* channel is full.
WorkerSend(i) ==
    /\ worker[i] = "send"
    /\ Len(upResult) < UpResultCap
    /\ upResult' = Append(upResult, wres[i])
    /\ worker' = [worker EXCEPT ![i] = "done"]
    /\ UNCHANGED <<ctorVars, rmVars, ftVars, stVars, rcvPc, size, mwIdx, wclosed, wres, nSuccess,
                   nFailures, err, nRecv, rcvRet, notified>>

\* A slip of lines 207-209: the copy error is recorded but the call goes on
\* to close the pipes and collect the backends' results.
CopyErrorIgnored ==
    /\ rcvPc = "copy" /\ mwIdx = 0
    /\ err' = CopyErr
    /\ wclosed' = TRUE
    /\ rcvPc' = "collect"
    /\ UNCHANGED <<ctorVars, rmVars, ftVars, stVars, size, mwIdx, worker, wres, upResult, nSuccess,
                   nFailures, nRecv, rcvRet, notified>>

\* Lines 206-209: the source fails; ReceiveBlob returns the copy error.
CopyError ==
    /\ rcvPc = "copy" /\ mwIdx = 0
    /\ err' = CopyErr
    /\ rcvRet' = [sb |-> ZeroSB, err |-> CopyErr]
    /\ rcvPc' = "returned"
    /\ UNCHANGED <<ctorVars, rmVars, ftVars, stVars, size, mwIdx, wclosed, worker, wres, upResult, nSuccess,
                   nFailures, nRecv, notified>>

\* Lines 206-213: the source is at its end; the pipes are closed and the
\* collection loop starts.
CopyEOF ==
    /\ rcvPc = "copy" /\ mwIdx = 0
    /\ wclosed' = TRUE
    /\ rcvPc' = "collect"
    /\ UNCHANGED <<ctorVars, rmVars, ftVars, stVars, size, mwIdx, worker, wres, upResult, nSuccess,
                   nFailures, err, nRecv, rcvRet, notified>>

\* A slip of line 217: the reported size is not compared.
IsSuccessNoSize(res, sz) == res.err = Nil

\* Line 217: the case of the switch a result falls in.
IsSuccess(res, sz) == res.err = Nil /\ res.sb.size = sz

\* A slip of line 219: the call goes on for one success after the quorum.
QuorumReachedLate(n, min) == n = min + 1

\* A slip of line 219: success is declared one result short of the quorum.
QuorumReachedEarly(n, min) == n + 1 >= min

\* Line 219: the quorum test.
QuorumReached(n, min) == n = min

\* Lines 223-228: the error a result that is no success records.
FailureErr(res, sz) ==
    IF res.err = Nil THEN SizeErr(res.sb.size, sz) ELSE res.err

\* Lines 214-235: one iteration of the collection loop, with the return it
\* leads to: at the quorum, or after the last backend's result.
Collect ==
    /\ rcvPc = "collect"
    /\ nRecv < N
    /\ upResult # <<>>
    /\ LET res == Head(upResult) IN
       /\ upResult' = Tail(upResult)
       /\ nRecv' = nRecv + 1
       /\ IF IsSuccess(res, size)
            THEN /\ nSuccess' = nSuccess + 1
                 /\ UNCHANGED <<nFailures, err>>
                 /\ IF QuorumReached(nSuccess + 1, sto.minWritesForSuccess)
                      THEN /\ notified' = notified + 1
                           /\ rcvRet' = [sb |-> res.sb, err |-> Nil]
                           /\ rcvPc' = "returned"
                      ELSE /\ UNCHANGED notified
                           /\ IF nRecv + 1 = N
                                THEN /\ rcvRet' = [sb |-> ZeroSB, err |-> err]
                                     /\ rcvPc' = "returned"
                                ELSE UNCHANGED <<rcvRet, rcvPc>>
            ELSE /\ nFailures' = nFailures + 1
                 /\ err' = FailureErr(res, size)
                 /\ UNCHANGED <<nSuccess, notified>>
                 /\ IF nRecv + 1 = N
                      THEN /\ rcvRet' = [sb |-> ZeroSB, err |-> FailureErr(res, size)]
                           /\ rcvPc' = "returned"
                      ELSE UNCHANGED <<rcvRet, rcvPc>>
    /\ UNCHANGED <<ctorVars, rmVars, ftVars, stVars, size, mwIdx, wclosed, worker, wres>>

InitReceive ==
    /\ \E s \in Stores : Built(s)
    /\ Idle

NextReceive ==
    \/ ReceiveBlobCall
    \/ CopyRead
    \/ CopyError
    \/ CopyEOF
    \/ Collect
    \/ \E i \in DOMAIN worker : BackendRead(i)
    \/ \E i \in DOMAIN worker : BackendReturn(i)
    \/ \E i \in DOMAIN worker : BackendHang(i)
    \/ \E i \in DOMAIN worker : DrainRead(i)
    \/ \E i \in DOMAIN worker : DrainEOF(i)
    \/ \E i \in DOMAIN worker : WorkerSend(i)

SpecReceive == InitReceive /\ [][NextReceive]_vars

\* The configurations that leave minWritesForSuccess unset or set it to 0.
DefaultConfigs == { c \in CanonicalConfigs : ~c.minSet \/ c.minVal = 0 }

\* Construction from a configuration with the default quorum, then a write.
InitDefaultReceive ==
    /\ \E c \in DefaultConfigs : Unbuilt(c)
    /\ Idle

NextDefaultReceive == Construct \/ NextReceive

SpecDefaultReceive == InitDefaultReceive /\ [][NextDefaultReceive]_vars

\* ------------------------------------------------------------ RemoveBlobs
\* The values sent on errch and not yet received.
rmErrch == SubSeq(rmSent, rmNRecv + 1, Len(rmSent))

\* Lines 239-249: the channel is made, one worker per backend is started and
\* the caller enters the range loop.
RemoveBlobsCall ==
    /\ rmPc = "idle"
    /\ rmPc' = "range"
    /\ rmWorker' = [i \in Replicas |-> "run"]
    /\ rmErr' = [i \in Replicas |-> Nil]
    /\ UNCHANGED <<ctorVars, rcvVars, ftVars, stVars, rmSent, rmNRecv,
                   reterr, rmNSuccess, rmRet>>

\* Line 242: the backend's remove operation returns nil or its error.
RemoveBackendReturn(i) ==
    /\ rmWorker[i] = "run"
    /\ \E e \in {Nil, BackendErr(i)} : rmErr' = [rmErr EXCEPT ![i] = e]
    /\ rmWorker' = [rmWorker EXCEPT ![i] = "send"]
    /\ UNCHANGED <<ctorVars, rcvVars, ftVars, stVars, rmPc, rmSent, rmNRecv,
                   reterr, rmNSuccess, rmRet>>

\* Line 242: errch <- ...; blocks while the channel holds `buffered` values.
RemoveSend(i) ==
    /\ rmWorker[i] = "send"
    /\ Len(rmErrch) < buffered
    /\ rmSent' = Append(rmSent, rmErr[i])
    /\ rmWorker' = [rmWorker EXCEPT ![i] = "done"]
    /\ UNCHANGED <<ctorVars, rcvVars, ftVars, stVars, rmPc, rmErr, rmNRecv,
                   reterr, rmNSuccess, rmRet>>

\* Line 249: `for _ = range errch` receives a value from errch and drops it.
RemoveRangeRecv ==
    /\ rmPc = "range"
    /\ rmErrch # <<>>
    /\ rmNRecv' = rmNRecv + 1
    /\ rmPc' = "inner"
    /\ UNCHANGED <<ctorVars, rcvVars, ftVars, stVars, rmWorker, rmErr, rmSent,
                   reterr, rmNSuccess, rmRet>>

\* Lines 250-254: `err := <-errch` receives the next value and counts it.
RemoveInnerRecv ==
    /\ rmPc = "inner"
    /\ rmErrch # <<>>
    /\ LET e == Head(rmErrch) IN
       /\ reterr' = IF e # Nil THEN e ELSE reterr
       /\ rmNSuccess' = IF e # Nil THEN rmNSuccess ELSE rmNSuccess + 1
    /\ rmNRecv' = rmNRecv + 1
    /\ rmPc' = "range"
    /\ UNCHANGED <<ctorVars, rcvVars, ftVars, stVars, rmWorker, rmErr, rmSent, rmRet>>

\* Lines 256-262: the value RemoveBlobs returns after the loop.  The range
\* loop ends only when errch is closed, and nothing closes errch: no step of
\* the call leads to these lines, so no action sets rmPc to "returned".
RemoveResult(n, e) == IF n > 0 THEN Nil ELSE e

InitRemove ==
    /\ \E s \in Stores : Built(s)
    /\ Idle

NextRemove ==
    \/ RemoveBlobsCall
    \/ \E i \in DOMAIN rmWorker : RemoveBackendReturn(i)
    \/ \E i \in DOMAIN rmWorker : RemoveSend(i)
    \/ RemoveRangeRecv
    \/ RemoveInnerRecv

SpecRemove == InitRemove /\ [][NextRemove]_vars

\* --------------------------------------------------------- FetchStreaming
\* Line 119: what backend i's fetch returns: a stream and a size, or its error.
FetchOutcomes(i, b) ==
    { [file |-> <<i, b>>, size |-> s, err |-> Nil] : s \in Sizes }
        \cup { [file |-> 0, size |-> 0, err |-> BackendErr(i)] }

\* Line 118: the loop starts at the first of sto.replicas.
FirstReplica == 1

\* A slip of lines 120-122: the loop never returns early.
FetchNeverStops(res) == FALSE

\* Lines 120-122: the loop returns at a fetch without error.
FetchStops(res) == res.err = Nil

\* A call of FetchStreaming (any number of calls, one after the other).
FetchStreamingCall(b) ==
    /\ ftPc \in {"idle", "returned"}
    /\ ftPc' = "loop"
    /\ ftBlob' = b
    /\ ftIdx' = FirstReplica
    /\ ftCalls' = <<>>
    /\ ftRet' = NoFetch
    /\ UNCHANGED <<ctorVars, rcvVars, rmVars, stVars>>

\* Lines 118-124: one iteration: the backend at ftIdx is called; its results
\* are assigned to file, size, err; the call returns them if err is nil or
\* if this was the last backend.
FetchReplica ==
    /\ ftPc = "loop"
    /\ \E res \in FetchOutcomes(ftIdx, ftBlob) :
       /\ ftCalls' = Append(ftCalls, [replica |-> ftIdx, res |-> res])
       /\ ftRet' = res
       /\ IF FetchStops(res) \/ ftIdx = N
            THEN ftPc' = "returned" /\ UNCHANGED ftIdx
            ELSE ftIdx' = ftIdx + 1 /\ UNCHANGED ftPc
    /\ UNCHANGED <<ctorVars, rcvVars, rmVars, stVars, ftBlob>>

InitFetch ==
    /\ \E s \in Stores : Built(s)
    /\ Idle

NextFetch ==
    \/ \E b \in Refs : FetchStreamingCall(b)
    \/ FetchReplica

SpecFetch == InitFetch /\ [][NextFetch]_vars

\* -------------------------------------------------------------- StatBlobs
\* The values sent on ch / errch and not yet received.
ch == SubSeq(stPushed, stNFunnel + 1, Len(stPushed))
stErrch == SubSeq(stSent, stNRecv + 1, Len(stSent))

\* The request lists: up to MaxBlobs references, repetitions allowed.
BlobLists == UNION { [1..n -> Refs] : n \in 0..MaxBlobs }

\* A reference names one content and so one size; StatBlobs never reads the
\* size of a result.
SizeOf(r) == r

\* The SizedBlobRefs a backend can report: of any reference, requested or not.
StatResults == { SB(r, SizeOf(r)) : r \in Refs }

\* Lines 133-136: the keys of need.
NeedOf(bl) == { bl[k] : k \in 1..Len(bl) }

\* Lines 133-161: need is filled, the channels are made, the funnel goroutine
\* and one worker per backend are started.
StatBlobsCall(bl) ==
    /\ stPc = "idle"
    /\ blobs' = bl
    /\ need' = NeedOf(bl)
    /\ funnelPc' = "range"
    /\ stWorker' = [i \in Replicas |-> "run"]
    /\ stPc' = "collect"
    /\ UNCHANGED <<ctorVars, rcvVars, rmVars, ftVars, stPushed, stNFunnel, chClosed,
                   stSent, stNRecv, retErr, dest, stRet>>

\* Line 154: the backend's stat operation sends a result on ch; blocks while
\* ch holds `buffered` values.
StatBackendReport(i, sb) ==
    /\ stWorker[i] = "run"
    /\ Len(stPushed) < MaxStatReports
    /\ Len(ch) < buffered
    /\ stPushed' = Append(stPushed, sb)
    /\ UNCHANGED <<ctorVars, rcvVars, rmVars, ftVars, stPc, blobs, need, stNFunnel,
                   chClosed, funnelPc, stWorker, stSent, stNRecv, retErr, dest,
                   stRet>>

\* Line 154: errch <- s.StatBlobs(ch, blobs, wait): the backend's stat
\* operation returns nil or its error and the worker sends it on errch.
StatReplica(i, e) ==
    /\ stWorker[i] = "run"
    /\ Len(stErrch) < buffered
    /\ stSent' = Append(stSent, e)
    /\ stWorker' = [stWorker EXCEPT ![i] = "done"]
    /\ UNCHANGED <<ctorVars, rcvVars, rmVars, ftVars, stPc, blobs, need, stPushed,
                   stNFunnel, chClosed, funnelPc, stNRecv, retErr, dest, stRet>>

\* Line 144: the result is one the call still needs.
Needed(sb, nd) == sb.ref \in nd

\* A slip of line 146: the forwarded reference stays in need.
NeedAfterKeep(sb, nd) == nd

\* Line 146: the keys of need after a result was forwarded.
NeedAfter(sb, nd) == nd \ {sb.ref}

\* Lines 142-148: the funnel goroutine takes one result from ch, forwards it
\* to dest if it is needed, and deletes it from need.  The caller's dest is
\* taken to accept every send.
Funnel ==
    /\ funnelPc = "range"
    /\ ch # <<>>
    /\ LET sb == Head(ch) IN
       IF Needed(sb, need)
         THEN dest' = Append(dest, sb) /\ need' = NeedAfter(sb, need)
         ELSE UNCHANGED <<dest, need>>
    /\ stNFunnel' = stNFunnel + 1
    /\ UNCHANGED <<ctorVars, rcvVars, rmVars, ftVars, stPc, blobs, stPushed, chClosed,
                   funnelPc, stWorker, stSent, stNRecv, retErr, stRet>>

\* Lines 142, 149: ch is closed and empty: the range loop ends and the
\* goroutine goes to send on donechan.
FunnelEnd ==
    /\ funnelPc = "range"
    /\ ch = <<>> /\ chClosed
    /\ funnelPc' = "signal"
    /\ UNCHANGED <<ctorVars, rcvVars, rmVars, ftVars, stPc, blobs, need, stPushed,
                   stNFunnel, chClosed, stWorker, stSent, stNRecv, retErr, dest,
                   stRet>>

\* A slip of lines 163-165: the first error is kept, not the last.
RetErrFirst(e, old) == IF old = Nil THEN e ELSE old

\* Lines 163-165: the error kept after receiving e.
RetErrAfter(e, old) == IF e # Nil THEN e ELSE old

\* A slip of lines 162-167: ch is closed after the first worker reported.
StatCollectClosesEarly ==
    /\ stPc = "collect"
    /\ stErrch # <<>>
    /\ retErr' = RetErrAfter(Head(stErrch), retErr)
    /\ stNRecv' = stNRecv + 1
    /\ chClosed' = TRUE /\ stPc' = "waitdone"
    /\ UNCHANGED <<ctorVars, rcvVars, rmVars, ftVars, blobs, need, stPushed,
                   stNFunnel, funnelPc, stWorker, stSent, dest, stRet>>

\* Lines 162-167: one iteration of the collection loop; after the last one
\* ch is closed.
StatCollect ==
    /\ stPc = "collect"
    /\ stErrch # <<>>
    /\ retErr' = RetErrAfter(Head(stErrch), retErr)
    /\ stNRecv' = stNRecv + 1
    /\ IF stNRecv + 1 = N
         THEN chClosed' = TRUE /\ stPc' = "waitdone"
         ELSE UNCHANGED <<chClosed, stPc>>
    /\ UNCHANGED <<ctorVars, rcvVars, rmVars, ftVars, blobs, need, stPushed,
                   stNFunnel, funnelPc, stWorker, stSent, dest, stRet>>

\* Lines 172-175: the value StatBlobs returns.
StatResult(nd, e) == IF nd = {} THEN Nil ELSE e

\* Lines 149, 168-175: the send on donechan meets the caller's receive; the
\* caller reads need and returns.
StatReturn ==
    /\ stPc = "waitdone"
    /\ funnelPc = "signal"
    /\ funnelPc' = "done"
    /\ stRet' = StatResult(need, retErr)
    /\ stPc' = "returned"
    /\ UNCHANGED <<ctorVars, rcvVars, rmVars, ftVars, blobs, need, stPushed,
                   stNFunnel, chClosed, stWorker, stSent, stNRecv, retErr, dest>>

\* StatBlobs reads neither minWritesForSuccess nor anything derived from it:
\* the stores with the default quorum stand for all.
InitStat ==
    /\ \E s \in { t \in DefaultStores : Len(t.replicas) <= MaxStatReplicas } :
          Built(s)
    /\ Idle

NextStat ==
    \/ \E bl \in BlobLists : StatBlobsCall(bl)
    \/ \E i \in DOMAIN stWorker, sb \in StatResults : StatBackendReport(i, sb)
    \/ \E i \in DOMAIN stWorker : \E e \in {Nil, BackendErr(i)} : StatReplica(i, e)
    \/ Funnel
    \/ FunnelEnd
    \/ StatCollect
    \/ StatReturn

SpecStat == InitStat /\ [][NextStat]_vars

\* ------------------------------------------------- claims about ReceiveBlob
q == sto.minWritesForSuccess

\* The copy ended at the end of the source, and the call has returned.
RcvReturnedAfterCopy == rcvPc = "returned" /\ rcvRet.err # CopyErr

\* The backends whose receive operation has returned without error and with
\* a reported size equal to the number of bytes read from the source.
GoodBackends ==
    { i \in Replicas : /\ worker[i] \in {"send", "done"}
                       /\ wres[i].err = Nil
                       /\ wres[i].sb.size = size }

\* C1: for a store with 1 <= q <= N, a call whose source was read to its end
\* returns success if and only if at least q backends returned without error
\* and with the size read from the source; otherwise its error is not nil.
RcvSuccessIffQuorum ==
    (RcvReturnedAfterCopy /\ 1 <= q /\ q <= N) =>
        /\ (rcvRet.err = Nil) <=> (Cardinality(GoodBackends) >= q)
        /\ (Cardinality(GoodBackends) < q) => rcvRet.err # Nil

\* C1 witness: a store with q < N returned success although a backend failed.
RcvQuorumWitness ==
    /\ RcvReturnedAfterCopy /\ 1 <= q /\ q < N
    /\ rcvRet.err = Nil
    /\ \E i \in Replicas : worker[i] = "done" /\ wres[i].err # Nil

\* The result at the head of the channel reports no error and a size that
\* differs from the bytes copied, and this step is the loop taking it.
TakesMismatch ==
    /\ rcvPc = "collect" /\ upResult # <<>>
    /\ Head(upResult).err = Nil
    /\ Head(upResult).sb.size # size
    /\ nRecv' = nRecv + 1

\* C2: a result without error whose size differs from the bytes copied is not
\* counted as a success: it is counted as a failure and the size-mismatch
\* error is recorded; with 3 backends and quorum 3, one such backend makes
\* the call fail whatever the other two report.
RcvMismatchIsFailure ==
    /\ [][TakesMismatch =>
            /\ nSuccess' = nSuccess
            /\ nFailures' = nFailures + 1
            /\ err' = SizeErr(Head(upResult).sb.size, size)
            /\ notified' = notified]_vars
    /\ [](( /\ N = 3 /\ q = 3 /\ RcvReturnedAfterCopy
            /\ \E i \in Replicas : /\ worker[i] = "done"
                                   /\ wres[i].err = Nil
                                   /\ wres[i].sb.size # size )
          => rcvRet.err # Nil)

\* C2 witness: 3 backends, quorum 3, two backends reported the size read and
\* one reported another size; the call returned an error.
RcvMismatchWitness ==
    /\ N = 3 /\ q = 3 /\ RcvReturnedAfterCopy /\ size = 1
    /\ \E i \in Replicas :
          /\ worker[i] = "done" /\ wres[i].err = Nil /\ wres[i].sb.size = 0
          /\ \A j \in Replicas \ {i} :
                worker[j] = "done" /\ wres[j].err = Nil /\ wres[j].sb.size = 1
    /\ nSuccess = 2 /\ nFailures = 1
    /\ rcvRet.err # Nil

\* C3: whenever ReceiveBlob has returned a nil error, the size of the
\* returned SizedBlobRef is the number of bytes read from the source.
\* (Refuted for the stores whose quorum is not in 1..N, which newFromConfig
\* builds: their loop ends with the nil err of io.Copy and the zero value.)
RcvSizeIsBytesRead ==
    (rcvPc = "returned" /\ rcvRet.err = Nil) => rcvRet.sb.size = size

\* C4: a call that has returned fired the notification once if it returned a
\* nil error and never if it returned an error; never more than once.
\* (Refuted for the stores whose quorum is not in 1..N: they return a nil
\* error without reaching the notification of line 220.)
RcvNotifiesOncePerSuccess ==
    /\ notified <= 1
    /\ rcvPc = "returned" => (notified = IF rcvRet.err = Nil THEN 1 ELSE 0)

\* C5: once the copy has failed, the call has returned the copy error and no
\* SizedBlobRef, has collected no backend result and has reported no
\* success, and this stays so whatever the backends do afterwards.
RcvCopyErrorReturned ==
    (err = CopyErr) =>
        /\ rcvPc = "returned"
        /\ rcvRet = [sb |-> ZeroSB, err |-> CopyErr]
        /\ nRecv = 0 /\ nSuccess = 0 /\ nFailures = 0
        /\ notified = 0

\* C5 witness: the copy failed, and afterwards a backend returned success
\* with the size copied and delivered its result, which nobody collects.
RcvCopyErrorWitness ==
    /\ err = CopyErr /\ rcvPc = "returned"
    /\ \E i \in Replicas : worker[i] = "done" /\ i \in GoodBackends
    /\ upResult # <<>>

\* ------------------------------------------------- claims about RemoveBlobs
\* Every backend's remove operation has returned and its worker has sent.
RemoveAllReported == rmPc # "idle" /\ \A i \in Replicas : rmWorker[i] = "done"

\* C6: once every backend has reported and the call has taken every result
\* from errch, the call has returned: nil if any backend's remove operation
\* reported success, otherwise the last recorded backend error.
\* (Refuted: the range clause of line 249 drops every other result and the
\* loop does not end, so the call does not return.)
RemoveReturnsAggregate ==
    (RemoveAllReported /\ rmErrch = <<>>) =>
        /\ rmPc = "returned"
        /\ rmRet = RemoveResult(rmNSuccess, reterr)
        /\ (\E i \in Replicas : rmErr[i] = Nil) => rmRet = Nil
        /\ (\A i \in Replicas : rmErr[i] # Nil) =>
               \E i \in Replicas : rmRet = rmErr[i]

\* C7: the call never stays blocked on errch: as long as it has not
\* returned, the call or one of its workers can take a step, so that once
\* every backend's remove operation has returned the call returns too.
\* (Refuted: with every worker done and errch empty the loop of line 249
\* waits for a value or a close that no goroutine is left to make.)
RemoveReturnsOrCanStep == rmPc = "returned" \/ ENABLED NextRemove

\* --------------------------------------------------- claims about StatBlobs
Requested == { blobs[k] : k \in 1..Len(blobs) }
ReportedRefs == { stPushed[k].ref : k \in 1..Len(stPushed) }
Forwarded(r) == { k \in 1..Len(dest) : dest[k].ref = r }

\* C8: only results of requested references are forwarded to dest, each
\* forwarded result is one a backend reported, no reference is forwarded
\* twice, and when the call has returned every requested reference that
\* some backend reported has been forwarded exactly once.
StatForwardsOnce ==
    /\ \A k \in 1..Len(dest) :
          /\ dest[k].ref \in Requested
          /\ \E j \in 1..Len(stPushed) : stPushed[j] = dest[k]
    /\ \A r \in Refs : Cardinality(Forwarded(r)) <= 1
    /\ stPc = "returned" =>
          \A r \in Requested \cap ReportedRefs : Cardinality(Forwarded(r)) = 1

\* C8 witness: the list names a reference twice, the backends reported it
\* twice, a backend returned an error, and it was forwarded once.
StatForwardsOnceWitness ==
    /\ stPc = "returned"
    /\ Len(blobs) = 2 /\ blobs[1] = blobs[2]
    /\ Len(stPushed) = 2 /\ stPushed[1].ref = blobs[1] /\ stPushed[2].ref = blobs[1]
    /\ \E k \in 1..Len(stSent) : stSent[k] # Nil
    /\ Len(dest) = 1

\* The non-nil error sent last on errch; nil if there is none.
LastError(sent) ==
    LET idx == { k \in 1..Len(sent) : sent[k] # Nil }
    IN  IF idx = {} THEN Nil
        ELSE sent[CHOOSE k \in idx : \A j \in idx : j <= k]

\* C9: StatBlobs returns nil when every requested reference was reported by
\* some backend, whatever errors the backends returned; otherwise it returns
\* the non-nil backend error received last, nil if there was none.
StatReturnValue ==
    stPc = "returned" =>
        stRet = IF Requested \subseteq ReportedRefs THEN Nil ELSE LastError(stSent)

\* C9 witness: a requested reference was reported by no backend and two
\* backends returned an error; the call returned the one received last.
StatReturnValueWitness ==
    /\ stPc = "returned"
    /\ ~(Requested \subseteq ReportedRefs)
    /\ Len(stSent) = 2 /\ stSent[1] # Nil /\ stSent[2] # Nil
    /\ stRet = stSent[2]

\* ---------------------------------------------- claims about FetchStreaming
\* C10: the backends are called in the configured order starting from the
\* first on every call; the call returns the results of the first backend
\* whose fetch has no error, and calls no backend after it; if every backend
\* fails it returns the error of the last backend.
FetchFirstSuccess ==
    /\ \A k \in 1..Len(ftCalls) : ftCalls[k].replica = k
    /\ ftPc = "returned" =>
          LET k == Len(ftCalls) IN
          /\ k >= 1
          /\ \A j \in 1..(k - 1) : ftCalls[j].res.err # Nil
          /\ ftRet = ftCalls[k].res
          /\ ftRet.err = Nil => ftRet.file = <<k, ftBlob>>
          /\ ftRet.err # Nil => k = N /\ ftRet.err = BackendErr(N)

\* C10 witness: of three backends the first failed and the second succeeded;
\* the call returned the second's stream and the third was not called.
FetchFirstSuccessWitness ==
    /\ N = 3 /\ ftPc = "returned"
    /\ Len(ftCalls) = 2
    /\ ftCalls[1].res.err # Nil
    /\ ftRet.err = Nil /\ ftRet.file = <<2, ftBlob>>

\* ------------------------------------------------ claims about construction
\* C11: construction fails or yields a store whose quorum is at least 1 and
\* at most the number of its backends, and the same holds of every
\* request-scoped copy of the store.
\* (Refuted: newFromConfig stores whatever minWritesForSuccess the
\* configuration gives, except 0.)
ConstructQuorumInRange ==
    /\ ctorErr = "nil" => (1 <= q /\ q <= N)
    /\ wrapped # NoStore =>
          /\ wrapped.minWritesForSuccess = q
          /\ 1 <= wrapped.minWritesForSuccess
          /\ wrapped.minWritesForSuccess <= Len(wrapped.replicas)

\* The configuration leaves minWritesForSuccess unset or sets it to 0.
DefaultQuorum == ~cfg.minSet \/ cfg.minVal = 0

\* C12: a store built from a configuration that leaves minWritesForSuccess
\* unset or sets it to 0 has the number of configured backends as its
\* quorum, and a write to it that returns success was accepted, with the
\* size read, by every backend.
ConstructDefaultQuorum ==
    (ctorErr = "nil" /\ DefaultQuorum) =>
        /\ q = Len(cfg.backends)
        /\ q = N
        /\ (rcvPc = "returned" /\ rcvRet.err = Nil) =>
              \A i \in Replicas : i \in GoodBackends

\* C12 witness: 3 backends and no minWritesForSuccess give quorum 3, and a
\* write returned success.
ConstructDefaultWitness ==
    /\ ctorErr = "nil" /\ ~cfg.minSet
    /\ Len(cfg.backends) = 3 /\ q = 3
    /\ rcvPc = "returned" /\ rcvRet.err = Nil

\* The positions of the configured locators the loader cannot resolve.
Unresolvable == { i \in 1..Len(cfg.backends) : cfg.backends[i] \in cfg.unresolved }

\* C13: construction returns an error and no store when the backends list
\* is empty, when the configuration has an unknown key, or when a locator
\* does not resolve; it returns a store only when every locator resolved,
\* and the store's backends are then the resolved locators, in their order.
ConstructErrors ==
    ctorErr # "pending" =>
        /\ (cfg.backends = <<>> \/ cfg.unknownKey \/ Unresolvable # {}) =>
              (ctorErr # "nil" /\ sto = NoStore)
        /\ ctorErr = "nil" =>
              /\ Unresolvable = {}
              /\ Len(sto.replicas) = Len(cfg.backends)
              /\ \A i \in 1..Len(cfg.backends) :
                    sto.replicas[i] = [storage |-> cfg.backends[i]]

\* C13 witness: of three locators exactly one does not resolve, and
\* construction returned an error and no store.
ConstructErrorsWitness ==
    /\ ctorErr = "resolve" /\ sto = NoStore
    /\ Len(cfg.backends) = 3
    /\ Cardinality(Unresolvable) = 1
    /\ ~cfg.unknownKey

\* --------------------------------------- more claims about ReceiveBlob
\* C14: the step that collects the q-th result with no error and the size
\* copied returns success with that size, and once the call has returned it
\* receives no further result and its outcome does not change, whatever the
\* other backends report afterwards.
RcvReturnsAtQuorum ==
    /\ [][(rcvPc = "collect" /\ nSuccess' = nSuccess + 1 /\ nSuccess + 1 = q) =>
            /\ rcvPc' = "returned"
            /\ rcvRet'.err = Nil
            /\ rcvRet'.sb.size = size
            /\ nRecv' = nRecv + 1]_vars
    /\ [][rcvPc = "returned" =>
            /\ rcvPc' = "returned"
            /\ rcvRet' = rcvRet
            /\ nRecv' = nRecv
            /\ notified' = notified]_vars

\* C14 witness: 3 backends, quorum 2; the call returned success with the
\* size read after two results, and the third backend's error sits
\* uncollected in the channel.
RcvReturnsAtQuorumWitness ==
    /\ N = 3 /\ q = 2 /\ size = 1
    /\ rcvPc = "returned" /\ rcvRet.err = Nil /\ rcvRet.sb.size = 1
    /\ nRecv = 2
    /\ \E i \in Replicas : worker[i] = "done" /\ wres[i].err # Nil
    /\ upResult # <<>> /\ Head(upResult).err # Nil

\* C15: a call that returns after all backends reported without reaching
\* the quorum returns an error that is not nil, and no call returns a nil
\* error together with the empty SizedBlobRef.
\* (Refuted for the stores whose quorum is not in 1..N: no error was
\* recorded and the code has no error of its own to return at line 235.)
RcvNoNilErrorWithoutRef ==
    rcvPc = "returned" =>
        /\ (rcvRet.err # CopyErr /\ notified = 0 /\ nRecv = N) => rcvRet.err # Nil
        /\ ~(rcvRet.err = Nil /\ rcvRet.sb = ZeroSB)

\* C16: once the copy has ended, at the end of the source or with an
\* error, the write ends of the pipes are closed, and a worker that drains
\* its pipe can see the end of the stream.
\* (Refuted: the return of line 208 comes before the Close calls.)
RcvPipesClosedAfterCopy ==
    rcvPc \in {"collect", "returned"} =>
        /\ wclosed
        /\ \A i \in DOMAIN worker : worker[i] = "drain" => ENABLED DrainEOF(i)

\* C17: a worker whose backend failed has sent its result only after its
\* pipe was closed, and whenever the broadcast writer waits on the pipe of a
\* failed backend that worker can take the chunk.
RcvFailedWorkerDrains ==
    \A i \in DOMAIN worker :
        /\ (wres[i].err # Nil /\ worker[i] \in {"send", "done"}) => wclosed
        /\ (wres[i].err # Nil /\ rcvPc = "copy" /\ mwIdx = i) =>
              (worker[i] = "drain" /\ ENABLED DrainRead(i))

\* C17 witness: the writer waits on the pipe of a backend that has failed,
\* with backends after it still to be served.
RcvFailedWorkerDrainsWitness ==
    /\ rcvPc = "copy"
    /\ \E i \in DOMAIN worker :
          /\ mwIdx = i /\ i < N
          /\ worker[i] = "drain" /\ wres[i].err = BackendErr(i)

\* The bytes the source has delivered: those copied to every pipe, and the
\* chunk the MultiWriter is writing.
SourceRead == size + (IF rcvPc = "copy" /\ mwIdx > 0 THEN 1 ELSE 0)

\* Exactly one backend hangs in its receive operation and every other
\* backend has taken every chunk written to its pipe and has reported no
\* error and the size of the source.
OneHungOthersGood ==
    /\ Cardinality({ i \in DOMAIN worker : worker[i] = "hung" }) = 1
    /\ mwIdx # 0 => worker[mwIdx] = "hung"
    /\ \A i \in DOMAIN worker :
          worker[i] # "hung" =>
              /\ worker[i] = "done"
              /\ wres[i].err = Nil
              /\ wres[i].sb.size = SourceRead

\* C19: with q < N, when one backend hangs and the others (at least q) have
\* accepted the blob with the size of the source, the call has returned or
\* can still take a step towards its return.
\* (Refuted: a backend that hangs before it has read its pipe blocks the
\* MultiWriter in io.Copy for ever.)
RcvHungBackendDoesNotBlock ==
    (1 <= q /\ q < N /\ rcvPc \in {"copy", "collect"} /\ OneHungOthersGood) =>
        ENABLED NextReceive

\* C20: a worker that has a result to send can send it: the channel is never
\* full for it, before and after the call has returned; a draining worker
\* ends its drain once the pipes are closed; the results sent are one per
\* worker that is done.
RcvWorkersCanSend ==
    /\ \A i \in DOMAIN worker :
          /\ worker[i] = "send" => ENABLED WorkerSend(i)
          /\ (worker[i] = "drain" /\ wclosed) => ENABLED DrainEOF(i)
    /\ rcvPc # "idle" =>
          /\ Len(upResult) + nRecv = Cardinality({ i \in DOMAIN worker : worker[i] = "done" })
          /\ Len(upResult) <= N

\* C20 witness: the call has returned success early; one more result sits in
\* the channel and another worker is about to send its own.
RcvWorkersCanSendWitness ==
    /\ rcvPc = "returned" /\ rcvRet.err = Nil /\ nRecv < N
    /\ upResult # <<>>
    /\ \E i \in DOMAIN worker : worker[i] = "send"

\* --------------------------------------- more claims about StatBlobs
\* C18: ch is closed only after every worker has sent its error and the
\* caller has received them all; the funnel goroutine leaves its loop only
\* with every result taken from ch; the caller returns (and reads need) only
\* after the funnel goroutine is done, and while that goroutine is in its
\* loop the caller is in its collection loop or waits on donechan.
StatChannelOrder ==
    /\ chClosed =>
          /\ stNRecv = N
          /\ \A i \in DOMAIN stWorker : stWorker[i] = "done"
    /\ funnelPc \in {"signal", "done"} =>
          (chClosed /\ stNFunnel = Len(stPushed))
    /\ stPc = "returned" =>
          (funnelPc = "done" /\ stNFunnel = Len(stPushed))
    /\ funnelPc = "range" => stPc \in {"collect", "waitdone"}

\* C18 witness: two backends pushed two results, both were taken by the
\* funnel goroutine, and the call has returned.
StatChannelOrderWitness ==
    /\ stPc = "returned" /\ N = 2
    /\ Len(stPushed) = 2 /\ stNFunnel = 2
    /\ dest # <<>>

====
